---- MODULE Spec2Model ----
(***************************************************************************)
(* LlamaPackage: the dependency resolver of llamapackage/dependency.py.    *)
(*                                                                         *)
(* One resolve_dependencies call is modelled as a state machine.  The      *)
(* recursion of _resolve_package is an explicit call stack of frames; the  *)
(* remote package index (the answers of _get_available_versions and        *)
(* _get_dependencies) is an environment that is revealed the first time    *)
(* the resolver queries it and answers the same way ever after.            *)
(*                                                                         *)
(* Version strings and constraint strings are sequences of one-character   *)
(* strings, so that str(), Version.coerce and the startswith dispatch of   *)
(* _satisfies are computed as the code computes them.                      *)
(***************************************************************************)
EXTENDS Integers, Sequences, FiniteSets, TLC

(* ------------------------------ bounds -------------------------------- *)

\* Longest `dependencies` argument (number of roots) of a resolve call.
MaxRoots == 2
\* Longest dependency map of one package version.
MaxDeps == 2
\* Most packages present in the `installed` argument.
MaxInstalled == 1
\* Most dependency entries the index reveals during one resolve call.
MaxEdges == 3
\* Deepest call stack explored (root loop + nested _resolve_package calls).
MaxDepth == 4

(* ----------------------------- universe ------------------------------- *)

Packages == {"A", "B", "X"}

\* semantic_version.Version values: (major, minor, patch).
Versions == {<<1, 0, 0>>, <<2, 0, 0>>}

\* The requirer key resolve_dependencies uses for the caller's own demands.
RootKey == "root"

\* Optional[Version] None.
None == <<>>

EmptyMap == [x \in {} |-> x]

(* ------------------------- version strings ---------------------------- *)

Digits == <<"0", "1", "2", "3", "4", "5", "6", "7", "8", "9">>

IsDigit(ch) == \E i \in 1..10 : Digits[i] = ch

DigitVal(ch) == (CHOOSE i \in 1..10 : Digits[i] = ch) - 1

RECURSIVE NatStr(_)
NatStr(n) ==
    IF n < 10 THEN <<Digits[n + 1]>>
    ELSE NatStr(n \div 10) \o <<Digits[(n % 10) + 1]>>

\* Version.__str__ : "major.minor.patch".
VersionStr(v) ==
    NatStr(v[1]) \o <<".">> \o NatStr(v[2]) \o <<".">> \o NatStr(v[3])

\* End (exclusive) of the run of digits of s that starts at index i.
RECURSIVE DigitsEnd(_, _)
DigitsEnd(s, i) ==
    IF i <= Len(s) /\ IsDigit(s[i]) THEN DigitsEnd(s, i + 1) ELSE i

\* The number written by the digits s[i..j-1].
RECURSIVE ParseNat(_, _, _)
ParseNat(s, i, j) ==
    IF j <= i THEN 0
    ELSE 10 * ParseNat(s, i, j - 1) + DigitVal(s[j - 1])

\* What Version.coerce raises (ValueError) when the text has no numeric head.
InvalidVersion == <<"ValueError">>

\* Version.coerce: the longest head \d+(\.\d+(\.\d+)?)? of the text, missing
\* components padded with zero.
Coerce(s) ==
    LET e1 == DigitsEnd(s, 1)
        has2 == e1 > 1 /\ e1 < Len(s) /\ s[e1] = "." /\ IsDigit(s[e1 + 1])
        e2 == IF has2 THEN DigitsEnd(s, e1 + 1) ELSE e1
        has3 == has2 /\ e2 < Len(s) /\ s[e2] = "." /\ IsDigit(s[e2 + 1])
        e3 == IF has3 THEN DigitsEnd(s, e2 + 1) ELSE e2
    IN  IF e1 = 1 THEN InvalidVersion
        ELSE << ParseNat(s, 1, e1),
                IF has2 THEN ParseNat(s, e1 + 1, e2) ELSE 0,
                IF has3 THEN ParseNat(s, e2 + 1, e3) ELSE 0 >>

(* ------------------------- version ordering --------------------------- *)

\* Mutant of VLess: the strict comparison admits equality.
VLessOrEqual(a, b) ==
    \/ a[1] < b[1]
    \/ a[1] = b[1] /\ a[2] < b[2]
    \/ a[1] = b[1] /\ a[2] = b[2] /\ a[3] <= b[3]

VLess(a, b) ==
    \/ a[1] < b[1]
    \/ a[1] = b[1] /\ a[2] < b[2]
    \/ a[1] = b[1] /\ a[2] = b[2] /\ a[3] < b[3]

VLeq(a, b) == a = b \/ VLess(a, b)

\* Mutant of MaxVersion: min() where the code has max().
MinVersion(vs) == CHOOSE v \in vs : \A w \in vs : VLeq(v, w)

\* max(valid_versions)
MaxVersion(vs) == CHOOSE v \in vs : \A w \in vs : VLeq(w, v)

(* ----------------------------- _satisfies ----------------------------- *)

StartsWith(s, p) == Len(s) >= Len(p) /\ SubSeq(s, 1, Len(p)) = p

Drop(s, n) == SubSeq(s, n + 1, Len(s))

\* Mutant of Satisfies: the ~= branch asks for the same minor whatever the
\* major.
SatisfiesSameMinor(version, constraint) ==
    IF StartsWith(constraint, <<"=", "=">>)
    THEN version = Coerce(Drop(constraint, 2))
    ELSE IF StartsWith(constraint, <<">", "=">>)
    THEN VLeq(Coerce(Drop(constraint, 2)), version)
    ELSE IF StartsWith(constraint, <<">">>)
    THEN VLess(Coerce(Drop(constraint, 1)), version)
    ELSE IF StartsWith(constraint, <<"<", "=">>)
    THEN VLeq(version, Coerce(Drop(constraint, 2)))
    ELSE IF StartsWith(constraint, <<"<">>)
    THEN VLess(version, Coerce(Drop(constraint, 1)))
    ELSE IF StartsWith(constraint, <<"~", "=">>)
    THEN LET required == Coerce(Drop(constraint, 2))
         IN  /\ VLeq(required, version)
             /\ version[1] = required[1]
             /\ version[2] = required[2]
    ELSE version = Coerce(constraint)

Satisfies(version, constraint) ==
    IF StartsWith(constraint, <<"=", "=">>)
    THEN version = Coerce(Drop(constraint, 2))
    ELSE IF StartsWith(constraint, <<">", "=">>)
    THEN VLeq(Coerce(Drop(constraint, 2)), version)
    ELSE IF StartsWith(constraint, <<">">>)
    THEN VLess(Coerce(Drop(constraint, 1)), version)
    ELSE IF StartsWith(constraint, <<"<", "=">>)
    THEN VLeq(version, Coerce(Drop(constraint, 2)))
    ELSE IF StartsWith(constraint, <<"<">>)
    THEN VLess(version, Coerce(Drop(constraint, 1)))
    ELSE IF StartsWith(constraint, <<"~", "=">>)
    THEN LET required == Coerce(Drop(constraint, 2))
         IN  /\ VLeq(required, version)
             /\ version[1] = required[1]
             /\ (version[1] > 0 \/ version[2] = required[2])
    ELSE version = Coerce(constraint)

\* The text _satisfies hands to Version.coerce, by the same prefix dispatch.
Operand(constraint) ==
    IF StartsWith(constraint, <<"=", "=">>) THEN Drop(constraint, 2)
    ELSE IF StartsWith(constraint, <<">", "=">>) THEN Drop(constraint, 2)
    ELSE IF StartsWith(constraint, <<">">>) THEN Drop(constraint, 1)
    ELSE IF StartsWith(constraint, <<"<", "=">>) THEN Drop(constraint, 2)
    ELSE IF StartsWith(constraint, <<"<">>) THEN Drop(constraint, 1)
    ELSE IF StartsWith(constraint, <<"~", "=">>) THEN Drop(constraint, 2)
    ELSE constraint

\* _satisfies raises ValueError: Version.coerce finds no numeric head.
SatisfiesRaises(constraint) == Coerce(Operand(constraint)) = InvalidVersion

(* ------------------------ inputs of the model ------------------------- *)

\* Version strings the index and the installed set may hold.
VersionTexts == {VersionStr(v) : v \in Versions}

\* Constraint strings of roots and of dependency maps.
ConstraintTexts ==
    { <<"=", "=">> \o VersionStr(<<1, 0, 0>>),
      <<">", "=">> \o VersionStr(<<1, 0, 0>>),
      <<"=", "=">> \o VersionStr(<<2, 0, 0>>) }

\* A constraint with an operator _satisfies does not know: it falls to the
\* bare branch, where Version.coerce("^1.0.0") raises ValueError.
MalformedText == <<"^">> \o VersionStr(<<1, 0, 0>>)

AllConstraintTexts == ConstraintTexts \cup {MalformedText}

\* The pure functions above, tabulated once over the strings and versions of
\* the model: the resolver's steps look the values up.
CoerceOf == [t \in VersionTexts |-> Coerce(t)]

StrOf == [v \in Versions |-> VersionStr(v)]

SatisfiesOf ==
    [v \in Versions |-> [c \in AllConstraintTexts |-> Satisfies(v, c)]]

RaisesOf == [c \in AllConstraintTexts |-> SatisfiesRaises(c)]

Names(items) == {items[k][1] : k \in DOMAIN items}

\* A dict of package -> constraint in insertion order: a sequence of
\* <<name, constraint>> with distinct names, at most n long.
DictsUpTo(n) ==
    UNION { { d \in [1..k -> Packages \X ConstraintTexts] :
                \A i, j \in 1..k : i # j => d[i][1] # d[j][1] } : k \in 0..n }

\* The same over a given set of constraint strings.
DictsOver(n, texts) ==
    UNION { { d \in [1..k -> Packages \X texts] :
                \A i, j \in 1..k : i # j => d[i][1] # d[j][1] } : k \in 0..n }

\* The `dependencies` arguments explored.  The resolver never compares package
\* names, so a call is determined up to renaming by taking its k-th root to be
\* the k-th package of RootOrder; constraints, the installed set and the index
\* stay arbitrary.
RootOrder == <<"A", "B", "X">>

RootDicts ==
    { d \in DictsUpTo(MaxRoots) :
        \A k \in DOMAIN d : k <= Len(RootOrder) => d[k][1] = RootOrder[k] }

\* An `installed` argument: package -> version string.
InstalledMaps ==
    UNION { [S -> VersionTexts] :
              S \in {T \in SUBSET Packages : Cardinality(T) <= MaxInstalled} }

(* ------------------------------ state -------------------------------- *)

VARIABLES
    pc,                 \* "idle" | "running" | "returned" | "raised"
    roots,              \* the `dependencies` argument, in dict order
    installed,          \* the `installed` argument
    required_versions,  \* package -> (requirer -> constraint)
    visited,            \* set of packages
    to_install,         \* package -> chosen version string
    stack,              \* call stack: the root loop, then _resolve_package frames
    conflict,           \* the raised DependencyConflict, or None
    index,              \* package -> version strings the index answered
    depmap,             \* <<package, version string>> -> dependency dict answered
    nbest,              \* package -> number of _get_best_version calls
    nfetch,             \* package -> number of _get_dependencies calls
    reached,            \* package -> constraint of the call that marked it visited
    world,              \* "closed" | "open": what the remote services may answer
    answers,            \* package -> what PyPI and the registry answered for it
    failures,           \* the remote queries that raised: <<"versions" | "dependencies", package>>
    req_order,          \* package -> its requirers in dict insertion order
    packages,           \* PackageRegistry.packages: name -> Package
    loaded,             \* PackageRegistry._loaded
    disk,               \* the index file of Storage
    artifacts,          \* the package files Storage holds
    clock,              \* datetime.now()
    call,               \* the last registry call and how it ended
    reads,              \* number of Storage.get_index calls
    saved,              \* the document handed to the last Storage.save_index call
    results,            \* the list the last search_packages call returned
    sat,                \* a _satisfies call: its arguments and what it returned
    self,               \* a Package object: its versions dict
    latest,             \* what the last get_latest_version call on it returned
    peer,               \* packages and _loaded of the PackageRegistry not in use
    handle              \* which of the two PackageRegistry objects is in use

resvars == << pc, roots, installed, required_versions, visited, to_install, stack,
              conflict, index, depmap, nbest, nfetch, reached, world, answers,
              failures, req_order >>

regvars == << packages, loaded, disk, artifacts, clock, call, reads, saved >>

extvars == << results, sat, self, latest, peer, handle >>

vars == << resvars, regvars, extvars >>

\* No _satisfies call, no Package object and no second PackageRegistry yet.
ExtIdle ==
    /\ results = [query |-> <<>>, found |-> <<>>]
    /\ sat = [op |-> "none"]
    /\ self = <<>>
    /\ latest = None
    /\ peer = [packages |-> <<>>, loaded |-> FALSE]
    /\ handle = 1

Init ==
    /\ pc = "idle"
    /\ roots = <<>>
    /\ installed = EmptyMap
    /\ required_versions = EmptyMap
    /\ visited = {}
    /\ to_install = EmptyMap
    /\ stack = <<>>
    /\ conflict = None
    /\ index = EmptyMap
    /\ depmap = EmptyMap
    /\ nbest = [p \in Packages |-> 0]
    /\ nfetch = [p \in Packages |-> 0]
    /\ reached = EmptyMap
    /\ world = "closed"
    /\ answers = EmptyMap
    /\ failures = {}
    /\ req_order = EmptyMap
    /\ packages = <<>>
    /\ loaded = FALSE
    /\ disk = [state |-> "missing", doc |-> <<>>]
    /\ artifacts = {}
    /\ clock = 0
    /\ call = [op |-> "none"]
    /\ reads = 0
    /\ saved = None
    /\ ExtIdle

(* ------------------------- resolver helpers --------------------------- *)

\* required_versions.get(package, {})
ConstraintsOf(rv, p) == IF p \in DOMAIN rv THEN rv[p] ELSE EmptyMap

\* required_versions.setdefault(pkg, {})[requirer] = constraint
Require(rv, p, requirer, constraint) ==
    (p :> ((requirer :> constraint) @@ ConstraintsOf(rv, p))) @@ rv

\* Mutant of SeedRoots: only the first root's constraint is recorded before
\* the calls begin.
SeedFirstRoot(rv, items) ==
    IF items = <<>> THEN rv
    ELSE Require(rv, items[1][1], RootKey, items[1][2])

\* for pkg, version in dependencies.items():
\*     required_versions.setdefault(pkg, {})["root"] = version
RECURSIVE SeedRoots(_, _)
SeedRoots(rv, items) ==
    IF items = <<>> THEN rv
    ELSE SeedRoots(Require(rv, items[1][1], RootKey, items[1][2]), Tail(items))

\* Mutant of RecordDeps: only the first dependency is recorded before the
\* calls begin.
RecordFirstDep(rv, package, deps) ==
    IF deps = <<>> THEN rv
    ELSE Require(rv, deps[1][1], package, deps[1][2])

\* for dep, dep_constraint in deps.items():
\*     required_versions.setdefault(dep, {})[package] = dep_constraint
RECURSIVE RecordDeps(_, _, _)
RecordDeps(rv, package, deps) ==
    IF deps = <<>> THEN rv
    ELSE RecordDeps(Require(rv, deps[1][1], package, deps[1][2]), package, Tail(deps))

\* The requirers of p in the insertion order of required_versions[p].
OrderOf(ord, p) == IF p \in DOMAIN ord THEN ord[p] ELSE <<>>

\* The key order of required_versions[p] after [requirer] = ... : a new key
\* goes last, an existing key keeps its place.
RequireOrder(ord, p, requirer) ==
    IF \E k \in DOMAIN OrderOf(ord, p) : OrderOf(ord, p)[k] = requirer THEN ord
    ELSE (p :> Append(OrderOf(ord, p), requirer)) @@ ord

RECURSIVE RecordOrder(_, _, _)
RecordOrder(ord, requirer, items) ==
    IF items = <<>> THEN ord
    ELSE RecordOrder(RequireOrder(ord, items[1][1], requirer), requirer, Tail(items))

\* Mutant of AlreadyVisited: the visited check left out.
NeverVisited(vis, p) == FALSE

\* if package in visited: return
AlreadyVisited(vis, p) == p \in vis

\* Mutant of MarkVisited: visited.add(package) left out.
MarkVisitedNot(vis, p) == vis

\* visited.add(package)
MarkVisited(vis, p) == vis \cup {p}

\* Mutant of InstalledSatisfies: the installed set is never consulted.
InstalledIgnored(inst, p, c) == FALSE

\* package in installed and _satisfies(Version.coerce(installed[package]), c)
InstalledSatisfies(inst, p, c) ==
    p \in DOMAIN inst /\ SatisfiesOf[CoerceOf[inst[p]]][c]

\* package in installed, and _satisfies(installed_version, constraint) raises.
InstalledRaises(inst, p, c) == p \in DOMAIN inst /\ RaisesOf[c]

\* Mutant of GetAvailableVersions: only the oldest version is offered.
GetOldestAvailable(texts) ==
    IF texts = {} THEN {} ELSE {MinVersion({CoerceOf[t] : t \in texts})}

\* _get_available_versions: the index's version strings, each coerced.
GetAvailableVersions(texts) == {CoerceOf[t] : t \in texts}

\* _get_best_version raises ValueError: for some version the all(...) scan of
\* constraints.values(), in dict order, reaches a malformed constraint before
\* any constraint the version fails.
GetBestVersionRaises(ord, constraints, versions) ==
    /\ DOMAIN constraints # {}
    /\ versions # {}
    /\ \E v \in versions :
         \E k \in DOMAIN ord :
            /\ RaisesOf[constraints[ord[k]]]
            /\ \A j \in 1..(k - 1) : SatisfiesOf[v][constraints[ord[j]]]

\* Mutant of GetBestVersion: any() where the code has all().
GetBestVersionAnyOf(constraints, versions) ==
    IF DOMAIN constraints = {} THEN None
    ELSE IF versions = {} THEN None
    ELSE LET valid_versions ==
                 { v \in versions :
                     \E r \in DOMAIN constraints : SatisfiesOf[v][constraints[r]] }
         IN  IF valid_versions = {} THEN None ELSE MaxVersion(valid_versions)

\* _get_best_version: None without constraints, without versions, or without
\* a version satisfying every constraint; otherwise the greatest valid one.
GetBestVersion(constraints, versions) ==
    IF DOMAIN constraints = {} THEN None
    ELSE IF versions = {} THEN None
    ELSE LET valid_versions ==
                 { v \in versions :
                     \A r \in DOMAIN constraints : SatisfiesOf[v][constraints[r]] }
         IN  IF valid_versions = {} THEN None ELSE MaxVersion(valid_versions)

(* ---------------------------- call stack ------------------------------ *)

\* A frame is the loop of one activation over its items: the root loop of
\* resolve_dependencies (pkg = RootKey) or the dependency loop of one
\* _resolve_package(pkg, ...).  phase "chosen" is the point between
\* to_install[package] = ... and the _get_dependencies call.
Frame(p, ph, items) == [pkg |-> p, phase |-> ph, deps |-> items, i |-> 1]

Top == stack[Len(stack)]

Calling == pc = "running" /\ Top.phase = "loop" /\ Top.i <= Len(Top.deps)

CallPkg == Top.deps[Top.i][1]

CallCon == Top.deps[Top.i][2]

Advanced == [stack EXCEPT ![Len(stack)].i = @ + 1]

\* Mutant of ConflictOf: the exception carries only the constraint of the
\* call that failed, not the map of every requirer.
ConflictCallOnly(rv, p) ==
    [package |-> p, required_versions |-> (Top.pkg :> CallCon)]

\* DependencyConflict(package, required_versions.get(package, {}))
ConflictOf(rv, p) == [package |-> p, required_versions |-> ConstraintsOf(rv, p)]

\* One remote source's reply to a versions query: HTTP 200 with version
\* strings ("ok"), another status ("miss"), or a raised exception ("error").
Reply(st, texts) == [status |-> st, versions |-> texts]

\* What PyPI and the registry hold for a package.
Answer(a, b) == [pypi |-> a, registry |-> b]

\* Closed world: PyPI does not know the package, the registry knows it with
\* every version or not at all, and no request fails.
ClosedAnswers ==
    { Answer(Reply("miss", {}), Reply("miss", {})),
      Answer(Reply("miss", {}), Reply("ok", VersionTexts)) }

\* Open world: either source may know the package, not know it, or fail;
\* PyPI's releases and the registry's versions differ.
OpenAnswers ==
    { Answer(a, b) :
        a \in { Reply("miss", {}), Reply("error", {}),
                Reply("ok", {VersionStr(<<2, 0, 0>>)}) },
        b \in { Reply("miss", {}), Reply("error", {}),
                Reply("ok", {VersionStr(<<1, 0, 0>>)}) } }

\* What the sources answer for a package: as before if asked before.
IndexAnswers(p) ==
    IF p \in DOMAIN answers THEN {answers[p]}
    ELSE IF world = "closed" THEN ClosedAnswers ELSE OpenAnswers

\* The version strings _get_available_versions returns: PyPI's releases when
\* PyPI answers 200, else the registry's versions when it answers 200, else
\* none; an exception of either request is caught and gives none.
AvailableTexts(a) ==
    IF a.pypi.status = "error" THEN {}
    ELSE IF a.pypi.status = "ok" THEN a.pypi.versions
    ELSE IF a.registry.status = "error" THEN {}
    ELSE IF a.registry.status = "ok" THEN a.registry.versions
    ELSE {}

\* A request of _get_available_versions raised.
VersionsFailed(a) ==
    \/ a.pypi.status = "error"
    \/ a.pypi.status = "miss" /\ a.registry.status = "error"

\* failures after the versions query of p was answered by a.
NoteVersions(p, a) ==
    IF VersionsFailed(a) THEN failures \cup {<<"versions", p>>} ELSE failures

\* Dependency dicts the index may answer.
DepDicts == DictsUpTo(MaxDeps)

\* Constraint strings of the open world: a well-formed and a malformed one.
OpenConstraintTexts ==
    { <<">", "=">> \o VersionStr(<<1, 0, 0>>), MalformedText }

\* Longest dependency map of the open world.
MaxOpenDeps == 1

OpenDepDicts == DictsOver(MaxOpenDeps, OpenConstraintTexts)

\* Whether the requests of _get_dependencies may raise.
FetchFails == IF world = "closed" THEN {FALSE} ELSE {FALSE, TRUE}

\* Dependency entries revealed so far.
Edges ==
    Cardinality(UNION { {<<k, i>> : i \in DOMAIN depmap[k]} : k \in DOMAIN depmap })

\* What the index answers for the dependencies of a package version.
DepAnswers(p, v) ==
    IF <<p, v>> \in DOMAIN depmap THEN {depmap[<<p, v>>]}
    ELSE { d \in (IF world = "closed" THEN DepDicts ELSE OpenDepDicts) :
             Len(d) + Edges <= MaxEdges }

(* ------------------------------ actions ------------------------------- *)

\* resolve_dependencies(dependencies, installed), up to the first
\* _resolve_package call, for arguments drawn from the given sets and remote
\* services of the given world.
ResolveWith(rootDicts, installedMaps, w) ==
    /\ pc = "idle"
    /\ call.op = "none"
    /\ \E rs \in rootDicts, inst \in installedMaps :
         /\ roots' = rs
         /\ installed' = inst
         /\ required_versions' = SeedRoots(EmptyMap, rs)
         /\ req_order' = RecordOrder(EmptyMap, RootKey, rs)
         /\ stack' = <<Frame(RootKey, "loop", rs)>>
    /\ visited' = {}
    /\ to_install' = EmptyMap
    /\ pc' = "running"
    /\ world' = w
    /\ UNCHANGED <<conflict, index, depmap, nbest, nfetch, reached, answers,
                   failures, regvars, extvars>>

\* _resolve_package on a visited package: returns at once.
ReturnVisited ==
    /\ Calling
    /\ AlreadyVisited(visited, CallPkg)
    /\ stack' = Advanced
    /\ UNCHANGED <<pc, roots, installed, required_versions, visited, to_install,
                   conflict, index, depmap, nbest, nfetch, reached, world,
                   answers, failures, req_order, regvars, extvars>>

\* _resolve_package on an installed package whose version satisfies the
\* constraint of this call: marks it visited and returns.
ReturnInstalled ==
    /\ Calling
    /\ ~AlreadyVisited(visited, CallPkg)
    /\ InstalledSatisfies(installed, CallPkg, CallCon)
    /\ visited' = MarkVisited(visited, CallPkg)
    /\ reached' = (CallPkg :> CallCon) @@ reached
    /\ stack' = Advanced
    /\ UNCHANGED <<pc, roots, installed, required_versions, to_install,
                   conflict, index, depmap, nbest, nfetch, world, answers,
                   failures, req_order, regvars, extvars>>

\* Mutant of RaiseConflict: the conflict is caught and the package skipped.
SwallowConflict ==
    /\ Calling
    /\ ~AlreadyVisited(visited, CallPkg)
    /\ ~InstalledRaises(installed, CallPkg, CallCon)
    /\ ~InstalledSatisfies(installed, CallPkg, CallCon)
    /\ \E a \in IndexAnswers(CallPkg) :
         /\ ~GetBestVersionRaises(OrderOf(req_order, CallPkg),
                                  ConstraintsOf(required_versions, CallPkg),
                                  GetAvailableVersions(AvailableTexts(a)))
         /\ GetBestVersion(ConstraintsOf(required_versions, CallPkg),
                           GetAvailableVersions(AvailableTexts(a))) = None
         /\ index' = (CallPkg :> AvailableTexts(a)) @@ index
         /\ answers' = (CallPkg :> a) @@ answers
         /\ failures' = NoteVersions(CallPkg, a)
    /\ visited' = MarkVisited(visited, CallPkg)
    /\ reached' = (CallPkg :> CallCon) @@ reached
    /\ nbest' = [nbest EXCEPT ![CallPkg] = @ + 1]
    /\ stack' = Advanced
    /\ UNCHANGED <<pc, roots, installed, required_versions, to_install, conflict,
                   depmap, nfetch, world, req_order, regvars, extvars>>

\* _resolve_package when _get_best_version returns None: raises
\* DependencyConflict(package, required_versions.get(package, {})).
RaiseConflict ==
    /\ Calling
    /\ ~AlreadyVisited(visited, CallPkg)
    /\ ~InstalledRaises(installed, CallPkg, CallCon)
    /\ ~InstalledSatisfies(installed, CallPkg, CallCon)
    /\ \E a \in IndexAnswers(CallPkg) :
         /\ ~GetBestVersionRaises(OrderOf(req_order, CallPkg),
                                  ConstraintsOf(required_versions, CallPkg),
                                  GetAvailableVersions(AvailableTexts(a)))
         /\ GetBestVersion(ConstraintsOf(required_versions, CallPkg),
                           GetAvailableVersions(AvailableTexts(a))) = None
         /\ index' = (CallPkg :> AvailableTexts(a)) @@ index
         /\ answers' = (CallPkg :> a) @@ answers
         /\ failures' = NoteVersions(CallPkg, a)
    /\ visited' = MarkVisited(visited, CallPkg)
    /\ reached' = (CallPkg :> CallCon) @@ reached
    /\ nbest' = [nbest EXCEPT ![CallPkg] = @ + 1]
    /\ conflict' = ConflictOf(required_versions, CallPkg)
    /\ pc' = "raised"
    /\ UNCHANGED <<roots, installed, required_versions, to_install, stack,
                   depmap, nfetch, world, req_order, regvars, extvars>>

\* _resolve_package when _satisfies raises ValueError, in the installed check
\* or inside _get_best_version: nothing catches it, resolve_dependencies ends
\* with the ValueError.
RaiseValueError ==
    /\ Calling
    /\ ~AlreadyVisited(visited, CallPkg)
    /\ \/ /\ InstalledRaises(installed, CallPkg, CallCon)
          /\ UNCHANGED <<index, answers, failures, nbest>>
       \/ /\ ~InstalledRaises(installed, CallPkg, CallCon)
          /\ ~InstalledSatisfies(installed, CallPkg, CallCon)
          /\ \E a \in IndexAnswers(CallPkg) :
               /\ GetBestVersionRaises(OrderOf(req_order, CallPkg),
                                       ConstraintsOf(required_versions, CallPkg),
                                       GetAvailableVersions(AvailableTexts(a)))
               /\ index' = (CallPkg :> AvailableTexts(a)) @@ index
               /\ answers' = (CallPkg :> a) @@ answers
               /\ failures' = NoteVersions(CallPkg, a)
          /\ nbest' = [nbest EXCEPT ![CallPkg] = @ + 1]
    /\ visited' = MarkVisited(visited, CallPkg)
    /\ reached' = (CallPkg :> CallCon) @@ reached
    /\ pc' = "error"
    /\ UNCHANGED <<roots, installed, required_versions, to_install, stack,
                   conflict, depmap, nfetch, world, req_order, regvars, extvars>>

\* _resolve_package up to to_install[package] = str(best_version).
Choose ==
    /\ Calling
    /\ Len(stack) < MaxDepth
    /\ ~AlreadyVisited(visited, CallPkg)
    /\ ~InstalledRaises(installed, CallPkg, CallCon)
    /\ ~InstalledSatisfies(installed, CallPkg, CallCon)
    /\ \E a \in IndexAnswers(CallPkg) :
         LET best_version ==
                 GetBestVersion(ConstraintsOf(required_versions, CallPkg),
                                GetAvailableVersions(AvailableTexts(a)))
         IN  /\ ~GetBestVersionRaises(OrderOf(req_order, CallPkg),
                                      ConstraintsOf(required_versions, CallPkg),
                                      GetAvailableVersions(AvailableTexts(a)))
             /\ best_version # None
             /\ index' = (CallPkg :> AvailableTexts(a)) @@ index
             /\ answers' = (CallPkg :> a) @@ answers
             /\ failures' = NoteVersions(CallPkg, a)
             /\ to_install' = (CallPkg :> StrOf[best_version]) @@ to_install
    /\ visited' = MarkVisited(visited, CallPkg)
    /\ reached' = (CallPkg :> CallCon) @@ reached
    /\ nbest' = [nbest EXCEPT ![CallPkg] = @ + 1]
    /\ stack' = Append(Advanced, Frame(CallPkg, "chosen", <<>>))
    /\ UNCHANGED <<pc, roots, installed, required_versions, conflict, depmap,
                   nfetch, world, req_order, regvars, extvars>>

\* deps = _get_dependencies(package, best_version), then the loop that
\* records them in required_versions.  A request that raises is caught inside
\* _get_dependencies, which then returns {}.
FetchDeps ==
    /\ pc = "running"
    /\ Top.phase = "chosen"
    /\ \E failed \in FetchFails :
         \E deps \in (IF failed THEN {<<>>}
                      ELSE DepAnswers(Top.pkg, to_install[Top.pkg])) :
            /\ depmap' = (<<Top.pkg, to_install[Top.pkg]>> :> deps) @@ depmap
            /\ required_versions' = RecordDeps(required_versions, Top.pkg, deps)
            /\ req_order' = RecordOrder(req_order, Top.pkg, deps)
            /\ stack' = [stack EXCEPT ![Len(stack)] = Frame(Top.pkg, "loop", deps)]
            /\ failures' = IF failed THEN failures \cup {<<"dependencies", Top.pkg>>}
                           ELSE failures
    /\ nfetch' = [nfetch EXCEPT ![Top.pkg] = @ + 1]
    /\ UNCHANGED <<pc, roots, installed, visited, to_install, conflict, index,
                   nbest, reached, world, answers, regvars, extvars>>

\* The end of a loop: _resolve_package returns to its caller, or
\* resolve_dependencies returns to_install.
Return ==
    /\ pc = "running"
    /\ Top.phase = "loop"
    /\ Top.i > Len(Top.deps)
    /\ stack' = SubSeq(stack, 1, Len(stack) - 1)
    /\ pc' = IF Len(stack) = 1 THEN "returned" ELSE "running"
    /\ UNCHANGED <<roots, installed, required_versions, visited, to_install,
                   conflict, index, depmap, nbest, nfetch, reached, world,
                   answers, failures, req_order, regvars, extvars>>

Resolve == ResolveWith(RootDicts, InstalledMaps, "closed")

Next ==
    \/ Resolve
    \/ ReturnVisited
    \/ ReturnInstalled
    \/ RaiseConflict
    \/ Choose
    \/ FetchDeps
    \/ Return

Spec == Init /\ [][Next]_vars

\* The `dependencies` arguments of the open world.
OpenRootDicts ==
    { d \in DictsOver(MaxRoots, OpenConstraintTexts) :
        \A k \in DOMAIN d : k <= Len(RootOrder) => d[k][1] = RootOrder[k] }

\* resolve_dependencies against remote services that may fail, with PyPI and
\* the registry both answering, and with malformed constraint strings.
ResolveOpen ==
    ResolveWith(OpenRootDicts, {m \in InstalledMaps : DOMAIN m \subseteq {"X"}}, "open")

OpenNext ==
    \/ ResolveOpen
    \/ ReturnVisited
    \/ ReturnInstalled
    \/ RaiseConflict
    \/ RaiseValueError
    \/ Choose
    \/ FetchDeps
    \/ Return

OpenSpec == Init /\ [][OpenNext]_vars

(* ============================ the registry ============================ *)

(* ------------------------------- bounds ------------------------------- *)

\* Most registry calls made on one PackageRegistry object.
MaxCalls == 3

(* ------------------------------ universe ------------------------------ *)

\* Package names of publish and add_package calls.
RegistryNames == {"A", "B"}

\* package_file arguments of publish_package.
Files == {"f1", "f2"}

\* `version` arguments of publish_package: two semantic versions and "1.0",
\* which Version.coerce accepts and Version.parse refuses.
PublishTexts ==
    { VersionStr(<<1, 0, 0>>), VersionStr(<<2, 0, 0>>), <<"1", ".", "0">> }

\* `token` arguments: none, one that does not verify, and tokens signed for
\* the named user ("ghost" has no user file).
NoToken == "none"

Tokens == {NoToken, "forged", "ghost", "alice", "admin"}

\* The user files of Authentication.
UserFiles ==
    [ alice |-> [username |-> "alice", is_admin |-> FALSE, owned_packages |-> {"A"}],
      admin |-> [username |-> "admin", is_admin |-> TRUE, owned_packages |-> {}] ]

\* Optional[User] None.
NoUser == [username |-> "", is_admin |-> FALSE, owned_packages |-> {}]

(* --------------------------- pure functions --------------------------- *)

\* A version component without a leading zero.
NoLeadingZero(s, i, j) == j - i > 1 => s[i] # "0"

\* semantic_version.Version.parse accepts the text: exactly
\* major.minor.patch, each a number without leading zero.
ParseAccepts(s) ==
    LET e1 == DigitsEnd(s, 1)
        has2 == e1 > 1 /\ e1 < Len(s) /\ s[e1] = "." /\ IsDigit(s[e1 + 1])
        e2 == IF has2 THEN DigitsEnd(s, e1 + 1) ELSE e1
        has3 == has2 /\ e2 < Len(s) /\ s[e2] = "." /\ IsDigit(s[e2 + 1])
        e3 == IF has3 THEN DigitsEnd(s, e2 + 1) ELSE e2
    IN  /\ has3
        /\ e3 = Len(s) + 1
        /\ NoLeadingZero(s, 1, e1)
        /\ NoLeadingZero(s, e1 + 1, e2)
        /\ NoLeadingZero(s, e2 + 1, e3)

ParseAcceptsOf == [t \in PublishTexts |-> ParseAccepts(t)]

\* Authentication.verify_token
VerifyToken(token) == token # NoToken /\ token # "forged"

\* Authentication.get_user_from_token
GetUserFromToken(token) ==
    IF ~VerifyToken(token) THEN NoUser
    ELSE IF token \in DOMAIN UserFiles THEN UserFiles[token]
    ELSE NoUser

\* Mutant of CanPublish: every known user may publish.
CanPublishAnyUser(user, package_name) == user # NoUser

\* Authorization.can_publish
CanPublish(user, package_name) ==
    IF user = NoUser THEN FALSE
    ELSE IF user.is_admin THEN TRUE
    ELSE package_name \in user.owned_packages

(* ------------------------ dicts in key order -------------------------- *)

\* A Python dict is a sequence of <<key, value>> with distinct keys.
Has(items, k) == \E i \in DOMAIN items : items[i][1] = k

\* items[k]
Get(items, k) == items[CHOOSE i \in DOMAIN items : items[i][1] = k][2]

\* Mutant of Put: the new value is dropped when the key exists.
PutIfAbsent(items, k, v) ==
    IF Has(items, k) THEN items ELSE Append(items, <<k, v>>)

\* items[k] = v
Put(items, k, v) ==
    IF Has(items, k)
    THEN [i \in DOMAIN items |-> IF items[i][1] = k THEN <<k, v>> ELSE items[i]]
    ELSE Append(items, <<k, v>>)

(* ------------------------------ records ------------------------------- *)

\* The download URL upload_package returns.
FileUrl(name, version, file) == <<name, version, file>>

\* PackageVersion(version, upload_date, download_url)
PackageVersion(version, date, url) ==
    [version |-> version, upload_date |-> date, download_url |-> url]

\* Package(name, versions): description is None and keywords is [] unless
\* given.
Package(name, versions) ==
    [name |-> name, versions |-> versions, description |-> None,
     keywords |-> <<>>]

\* Package(name, description=..., keywords=...)
PackageWith(name, description, keywords) ==
    [name |-> name, versions |-> <<>>, description |-> description,
     keywords |-> keywords]

\* Mutant of AddVersion: the record is stored under its download URL.
AddVersionByUrl(package, pv) ==
    [package EXCEPT !.versions = Put(@, pv.download_url, pv)]

\* Package.add_version
AddVersion(package, pv) ==
    [package EXCEPT !.versions = Put(@, pv.version, pv)]

\* An index entry: the data of a package, and whether Package.parse_obj
\* accepts it.
Data(ok, package) == [ok |-> ok, package |-> package]

\* package.dict()
PackageDict(package) == Data(TRUE, package)

\* {name: package.dict() for name, package in self.packages.items()}
IndexDoc(pkgs) ==
    [i \in DOMAIN pkgs |-> <<pkgs[i][1], PackageDict(pkgs[i][2])>>]

\* The index file: absent, holding a JSON document, or unreadable (not JSON,
\* cut short, or not permitted).
Disk(st, doc) == [state |-> st, doc |-> doc]

\* Storage.get_index: {} when the file is absent or cannot be read.
GetIndex(d) == IF d.state = "ok" THEN d.doc ELSE <<>>

\* Package A with version 1.0.0 as an earlier process published it.
StoredA ==
    Package("A", << << VersionStr(<<1, 0, 0>>),
                       PackageVersion(VersionStr(<<1, 0, 0>>), 0,
                                      FileUrl("A", VersionStr(<<1, 0, 0>>), "f1")) >> >>)

\* An index entry Package.parse_obj refuses (no name field).
BadData == Data(FALSE, Package("", <<>>))

\* The index files a PackageRegistry may find.
DiskStates ==
    { Disk("missing", <<>>),
      Disk("unreadable", <<>>),
      Disk("ok", <<>>),
      Disk("ok", << <<"A", PackageDict(StoredA)>> >>),
      Disk("ok", << <<"A", PackageDict(StoredA)>>, <<"B", BadData>> >>) }

\* The loop of load() over package_index.items(): the map after it, and
\* whether Package.parse_obj raised.
RECURSIVE ParseInto(_, _)
ParseInto(pkgs, doc) ==
    IF doc = <<>> THEN [packages |-> pkgs, raised |-> FALSE]
    ELSE IF ~doc[1][2].ok THEN [packages |-> pkgs, raised |-> TRUE]
    ELSE ParseInto(Put(pkgs, doc[1][1], doc[1][2].package), Tail(doc))

\* Mutant of Loading: the _loaded flag is not consulted.
LoadingAlways ==
    LET r == ParseInto(packages, GetIndex(disk))
    IN  [packages |-> r.packages, loaded |-> ~r.raised, reads |-> reads + 1,
         raised |-> r.raised]

\* load(): the in-memory map, _loaded and the number of get_index calls
\* after it, and whether it raised.
Loading ==
    IF loaded
    THEN [packages |-> packages, loaded |-> TRUE, reads |-> reads, raised |-> FALSE]
    ELSE LET r == ParseInto(packages, GetIndex(disk))
         IN  [packages |-> r.packages, loaded |-> ~r.raised, reads |-> reads + 1,
              raised |-> r.raised]

\* Storage.save_index(doc): the file after it.  The write succeeds, or open()
\* fails and the file stays, or the write fails after open() emptied the file.
\* save_index catches the failure and returns False; save() drops that value.
SaveOutcomes(doc) == {Disk("ok", doc), disk, Disk("unreadable", <<>>)}

\* The `package` arguments of add_package: a package without versions, or
\* with version 2.0.0 only.
AddablePackages ==
    UNION { { Package(n, <<>>),
              Package(n, << << VersionStr(<<2, 0, 0>>),
                               PackageVersion(VersionStr(<<2, 0, 0>>), 0,
                                              FileUrl(n, VersionStr(<<2, 0, 0>>), "f2")) >> >>) }
            : n \in RegistryNames }

\* No `package` argument.
NoPackage == Package("", <<>>)

\* The record of a registry call: what was called with what, whether
\* Storage.upload_package ran ("none", "stored", "failed"), and how the call
\* ended.
Call(op, name, version, token, package, upload, outcome) ==
    [op |-> op, name |-> name, version |-> version, token |-> token,
     package |-> package, upload |-> upload, outcome |-> outcome]

(* ------------------------------ actions ------------------------------- *)

RegInit ==
    /\ pc = "idle"
    /\ roots = <<>>
    /\ installed = EmptyMap
    /\ required_versions = EmptyMap
    /\ visited = {}
    /\ to_install = EmptyMap
    /\ stack = <<>>
    /\ conflict = None
    /\ index = EmptyMap
    /\ depmap = EmptyMap
    /\ nbest = [p \in Packages |-> 0]
    /\ nfetch = [p \in Packages |-> 0]
    /\ reached = EmptyMap
    /\ world = "closed"
    /\ answers = EmptyMap
    /\ failures = {}
    /\ req_order = EmptyMap
    /\ packages = <<>>
    /\ loaded = FALSE
    /\ disk \in DiskStates
    /\ artifacts = {}
    /\ clock = 1
    /\ call = [op |-> "start"]
    /\ reads = 0
    /\ saved = None
    /\ ExtIdle

\* A registry call begins: the resolver is not running and the object has
\* calls left.
CanCall == pc = "idle" /\ call.op # "none" /\ clock <= MaxCalls

\* load()
Load ==
    /\ CanCall
    /\ packages' = Loading.packages
    /\ loaded' = Loading.loaded
    /\ reads' = Loading.reads
    /\ call' = Call("load", "", <<>>, NoToken, NoPackage, "none",
                    IF Loading.raised THEN "ValidationError" ELSE "ok")
    /\ clock' = clock + 1
    /\ UNCHANGED <<disk, artifacts, saved, resvars, extvars>>

\* get_package(name)
GetPackage ==
    /\ CanCall
    /\ \E name \in RegistryNames :
         call' = Call("get_package", name, <<>>, NoToken, NoPackage, "none",
                      IF Loading.raised THEN "ValidationError"
                      ELSE IF Has(Loading.packages, name) THEN "found"
                      ELSE "None")
    /\ packages' = Loading.packages
    /\ loaded' = Loading.loaded
    /\ reads' = Loading.reads
    /\ clock' = clock + 1
    /\ UNCHANGED <<disk, artifacts, saved, resvars, extvars>>

\* add_package(package): load(), self.packages[package.name] = package,
\* save().
AddPackage ==
    /\ CanCall
    /\ \E package \in AddablePackages :
         IF Loading.raised
         THEN /\ packages' = Loading.packages
              /\ call' = Call("add_package", package.name, <<>>, NoToken,
                              package, "none", "ValidationError")
              /\ UNCHANGED <<disk, saved>>
         ELSE /\ packages' = Put(Loading.packages, package.name, package)
              /\ saved' = IndexDoc(packages')
              /\ disk' \in SaveOutcomes(IndexDoc(packages'))
              /\ call' = Call("add_package", package.name, <<>>, NoToken,
                              package, "none", "ok")
    /\ loaded' = Loading.loaded
    /\ reads' = Loading.reads
    /\ clock' = clock + 1
    /\ UNCHANGED <<artifacts, resvars, extvars>>

\* Mutant of PublishCheck: the existing-version check left out.
PublishCheckNoExists(pkgs, name, version, token) ==
    IF ~VerifyToken(token) THEN "InvalidToken"
    ELSE IF ~CanPublish(GetUserFromToken(token), name) THEN "Unauthorized"
    ELSE IF ~ParseAcceptsOf[version] THEN "InvalidVersion"
    ELSE "upload"

\* Mutant of PublishCheck: the version validation left out.
PublishCheckNoParse(pkgs, name, version, token) ==
    IF ~VerifyToken(token) THEN "InvalidToken"
    ELSE IF ~CanPublish(GetUserFromToken(token), name) THEN "Unauthorized"
    ELSE IF Has(pkgs, name) /\ Has(Get(pkgs, name).versions, version)
         THEN "VersionExists"
    ELSE "upload"

\* How publish_package ends before it touches anything, or "upload" when it
\* reaches the upload.
PublishCheck(pkgs, name, version, token) ==
    IF ~VerifyToken(token) THEN "InvalidToken"
    ELSE IF ~CanPublish(GetUserFromToken(token), name) THEN "Unauthorized"
    ELSE IF ~ParseAcceptsOf[version] THEN "InvalidVersion"
    ELSE IF Has(pkgs, name) /\ Has(Get(pkgs, name).versions, version)
         THEN "VersionExists"
    ELSE "upload"

\* publish_package(name, version, package_file, metadata, token)
PublishPackage ==
    /\ CanCall
    /\ \E name \in RegistryNames, version \in PublishTexts, file \in Files,
          token \in Tokens, uploads \in BOOLEAN :
         LET check == PublishCheck(Loading.packages, name, version, token)
             package == IF Has(Loading.packages, name)
                        THEN Get(Loading.packages, name)
                        ELSE Package(name, <<>>)
             package_version ==
                 PackageVersion(version, clock, FileUrl(name, version, file))
         IN  IF Loading.raised
             THEN /\ packages' = Loading.packages
                  /\ call' = Call("publish_package", name, version, token,
                                  NoPackage, "none", "ValidationError")
                  /\ UNCHANGED <<disk, artifacts, saved>>
             ELSE IF check # "upload"
             THEN /\ packages' = Loading.packages
                  /\ call' = Call("publish_package", name, version, token,
                                  NoPackage, "none", check)
                  /\ UNCHANGED <<disk, artifacts, saved>>
             ELSE IF ~uploads
             THEN /\ packages' = Loading.packages
                  /\ call' = Call("publish_package", name, version, token,
                                  NoPackage, "failed", "StorageError")
                  /\ UNCHANGED <<disk, artifacts, saved>>
             ELSE /\ artifacts' = artifacts \cup {FileUrl(name, version, file)}
                  /\ packages' = Put(Loading.packages, name,
                                     AddVersion(package, package_version))
                  /\ saved' = IndexDoc(packages')
                  /\ disk' \in SaveOutcomes(IndexDoc(packages'))
                  /\ call' = Call("publish_package", name, version, token,
                                  NoPackage, "stored", "ok")
    /\ loaded' = Loading.loaded
    /\ reads' = Loading.reads
    /\ clock' = clock + 1
    /\ UNCHANGED <<resvars, extvars>>

RegNext ==
    \/ Load
    \/ GetPackage
    \/ AddPackage
    \/ PublishPackage

RegistrySpec == RegInit /\ [][RegNext]_vars

(* ============================== search =============================== *)

UpperCase == <<"A", "B", "C", "D", "E", "F", "G", "H", "I", "J", "K", "L", "M", "N", "O", "P", "Q", "R", "S", "T", "U", "V", "W", "X", "Y", "Z">>

LowerCase == <<"a", "b", "c", "d", "e", "f", "g", "h", "i", "j", "k", "l", "m", "n", "o", "p", "q", "r", "s", "t", "u", "v", "w", "x", "y", "z">>

\* str.lower() of one character.
LowerChar(ch) ==
    IF \E i \in DOMAIN UpperCase : UpperCase[i] = ch
    THEN LowerCase[CHOOSE i \in DOMAIN UpperCase : UpperCase[i] = ch]
    ELSE ch

\* str.lower()
Lower(s) == IF s = <<>> THEN <<>> ELSE [i \in 1..Len(s) |-> LowerChar(s[i])]

\* query in text
Contains(text, query) ==
    \E i \in 1..(Len(text) - Len(query) + 1) :
        SubSeq(text, i, i + Len(query) - 1) = query

\* Package names, descriptions and keyword lists of the index searched.
LlamaText == <<"L", "l", "a", "m", "a", "T", "e", "x", "t">>

Unrelated == <<"u", "n", "r", "e", "l", "a", "t", "e", "d">>

SearchNames == {LlamaText, Unrelated}

Descriptions == { None, <<"A", " ", "l", "l", "a", "m", "a", " ", "t", "o", "o", "l">>, <<"O", "t", "h", "e", "r">> }

KeywordLists == { <<>>, << <<"N", "L", "P">>, <<"L", "l", "a", "m", "a">> >>, << <<"m", "i", "s", "c">> >> }

\* `query` arguments of search_packages.
Queries == { <<"l", "l", "a", "m", "a">>, <<"L", "L", "A", "M", "A">>, <<>>, <<"n", "l", "p">>, <<"t", "e", "x", "t">>, <<"z", "z", "z">> }

SearchPackagesOf == [n \in SearchNames |->
    {PackageWith(n, d, k) : d \in Descriptions, k \in KeywordLists}]

\* The index files searched: no, one or two packages, in either order, and
\* one with an entry that does not decode.
SearchDisks ==
    { Disk("ok", <<>>),
      Disk("ok", << <<Unrelated, Data(FALSE, PackageWith(<<>>, None, <<>>))>> >>) }
    \cup UNION { { Disk("ok", << <<n, PackageDict(p)>> >>) : p \in SearchPackagesOf[n] }
                 : n \in SearchNames }
    \cup UNION { { Disk("ok", << <<nm[1], PackageDict(p)>>, <<nm[2], PackageDict(q)>> >>) :
                     p \in SearchPackagesOf[nm[1]], q \in SearchPackagesOf[nm[2]] }
                 : nm \in {x \in SearchNames \X SearchNames : x[1] # x[2]} }

\* Mutant of SearchLoop: the three tests without `continue`.
RECURSIVE SearchLoopNoContinue(_, _, _)
SearchLoopNoContinue(items, query, found) ==
    IF items = <<>> THEN found
    ELSE LET name == items[1][1]
             package == items[1][2]
             byName == IF Contains(Lower(name), query) THEN <<package>> ELSE <<>>
             byDescription ==
                 IF package.description # None
                    /\ Contains(Lower(package.description), query)
                 THEN <<package>> ELSE <<>>
             byKeyword ==
                 IF \E k \in DOMAIN package.keywords :
                        Contains(Lower(package.keywords[k]), query)
                 THEN <<package>> ELSE <<>>
         IN  SearchLoopNoContinue(Tail(items), query,
                                  found \o byName \o byDescription \o byKeyword)

\* for name, package in self.packages.items(): the three tests, each ending
\* the iteration with `continue` after results.append(package).
RECURSIVE SearchLoop(_, _, _)
SearchLoop(items, query, found) ==
    IF items = <<>> THEN found
    ELSE LET name == items[1][1]
             package == items[1][2]
         IN  IF Contains(Lower(name), query)
             THEN SearchLoop(Tail(items), query, Append(found, package))
             ELSE IF package.description # None
                     /\ Contains(Lower(package.description), query)
             THEN SearchLoop(Tail(items), query, Append(found, package))
             ELSE IF \E k \in DOMAIN package.keywords :
                        Contains(Lower(package.keywords[k]), query)
             THEN SearchLoop(Tail(items), query, Append(found, package))
             ELSE SearchLoop(Tail(items), query, found)

\* A search_packages call and the list it returned.
Results(query, found) == [query |-> query, found |-> found]

SearchInit ==
    /\ pc = "idle"
    /\ roots = <<>>
    /\ installed = EmptyMap
    /\ required_versions = EmptyMap
    /\ visited = {}
    /\ to_install = EmptyMap
    /\ stack = <<>>
    /\ conflict = None
    /\ index = EmptyMap
    /\ depmap = EmptyMap
    /\ nbest = [p \in Packages |-> 0]
    /\ nfetch = [p \in Packages |-> 0]
    /\ reached = EmptyMap
    /\ world = "closed"
    /\ answers = EmptyMap
    /\ failures = {}
    /\ req_order = EmptyMap
    /\ packages = <<>>
    /\ loaded = FALSE
    /\ disk \in SearchDisks
    /\ artifacts = {}
    /\ clock = 1
    /\ call = [op |-> "start"]
    /\ reads = 0
    /\ saved = None
    /\ ExtIdle

\* search_packages(query)
SearchPackages ==
    /\ CanCall
    /\ \E query \in Queries :
         IF Loading.raised
         THEN /\ call' = Call("search_packages", "", <<>>, NoToken, NoPackage,
                              "none", "ValidationError")
              /\ results' = Results(query, <<>>)
         ELSE /\ call' = Call("search_packages", "", <<>>, NoToken, NoPackage,
                              "none", "ok")
              /\ results' = Results(query, SearchLoop(Loading.packages, Lower(query), <<>>))
    /\ packages' = Loading.packages
    /\ loaded' = Loading.loaded
    /\ reads' = Loading.reads
    /\ clock' = clock + 1
    /\ UNCHANGED <<disk, artifacts, saved, resvars, sat, self, latest, peer, handle>>

SearchNext == SearchPackages

SearchSpec == SearchInit /\ [][SearchNext]_vars

(* ========================== _satisfies calls ========================== *)

\* `version` arguments of _satisfies.
SatVersions ==
    { <<0, 2, 2>>, <<0, 2, 3>>, <<0, 2, 9>>, <<0, 3, 0>>, <<1, 0, 0>>,
      <<1, 2, 3>>, <<1, 2, 9>>, <<1, 3, 0>>, <<2, 0, 0>> }

\* The operators a constraint string may start with; none for a bare version.
Operators ==
    { <<"=", "=">>, <<">", "=">>, <<">">>, <<"<", "=">>, <<"<">>, <<"~", "=">>, <<>> }

\* `constraint` arguments of _satisfies: an operator and str(v) of a version.
SatConstraints == { o \o VersionStr(r) : o \in Operators, r \in SatVersions }

\* A _satisfies call and what it returned.
SatCall(version, constraint, value) ==
    [op |-> "_satisfies", version |-> version, constraint |-> constraint,
     value |-> value]

\* _satisfies(version, constraint)
SatisfiesCall ==
    /\ pc = "idle"
    /\ call.op = "none"
    /\ \E version \in SatVersions, constraint \in SatConstraints :
         sat' = SatCall(version, constraint,
                        IF SatisfiesRaises(constraint) THEN "ValueError"
                        ELSE Satisfies(version, constraint))
    /\ UNCHANGED <<resvars, regvars, results, self, latest, peer, handle>>

SatNext == SatisfiesCall

SatSpec == Init /\ [][SatNext]_vars

(* ======================== one Package object ========================= *)

\* Most calls made on one Package object.
MaxPackageCalls == 5

\* The versions given to add_version: 1.10.0 is later than 1.9.0 as a
\* version and earlier as a string.
LatestVersions == { <<1, 2, 0>>, <<1, 9, 0>>, <<1, 10, 0>> }

LatestTexts == { VersionStr(v) : v \in LatestVersions }

\* semantic_version.Version.parse
VersionParse(s) == IF ParseAccepts(s) THEN Coerce(s) ELSE InvalidVersion

VersionParseOf == [t \in LatestTexts |-> VersionParse(t)]

\* The order of the characters of a version string.
CharRank(ch) == CHOOSE i \in 1..11 : (<<".">> \o Digits)[i] = ch

\* a < b for strings.
RECURSIVE LexLess(_, _)
LexLess(a, b) ==
    IF b = <<>> THEN FALSE
    ELSE IF a = <<>> THEN TRUE
    ELSE IF a[1] # b[1] THEN CharRank(a[1]) < CharRank(b[1])
    ELSE LexLess(Tail(a), Tail(b))

\* Mutant of LatestLoop: the version strings are compared as strings.
RECURSIVE LatestLexical(_, _, _)
LatestLexical(items, latest_obj, latest_ver) ==
    IF items = <<>> THEN latest_obj
    ELSE IF latest_ver = None \/ LexLess(latest_obj.version, items[1][1])
    THEN LatestLexical(Tail(items), items[1][2], VersionParseOf[items[1][1]])
    ELSE LatestLexical(Tail(items), latest_obj, latest_ver)

\* for ver_str, ver_obj in self.versions.items(): ver = Version.parse(ver_str);
\* if latest_ver is None or ver > latest_ver: latest_ver, latest = ver, ver_obj
RECURSIVE LatestLoop(_, _, _)
LatestLoop(items, latest_obj, latest_ver) ==
    IF items = <<>> THEN latest_obj
    ELSE IF latest_ver = None \/ VLess(latest_ver, VersionParseOf[items[1][1]])
    THEN LatestLoop(Tail(items), items[1][2], VersionParseOf[items[1][1]])
    ELSE LatestLoop(Tail(items), latest_obj, latest_ver)

\* Package.get_latest_version
GetLatestVersion(package) ==
    IF package.versions = <<>> THEN None
    ELSE LatestLoop(package.versions, None, None)

\* A call on the Package object may begin.
CanCallPackage ==
    pc = "idle" /\ call.op = "none" /\ sat.op = "none" /\ clock < MaxPackageCalls

\* Package(name=name)
NewPackage ==
    /\ CanCallPackage
    /\ self = <<>>
    /\ self' = Package("A", <<>>)
    /\ clock' = clock + 1
    /\ UNCHANGED <<resvars, packages, loaded, disk, artifacts, call, reads, saved,
                   results, sat, latest, peer, handle>>

\* self.add_version(PackageVersion(version=...))
AddVersionCall ==
    /\ CanCallPackage
    /\ self # <<>>
    /\ \E text \in LatestTexts, file \in Files :
         self' = AddVersion(self, PackageVersion(text, clock, FileUrl("A", text, file)))
    /\ clock' = clock + 1
    /\ UNCHANGED <<resvars, packages, loaded, disk, artifacts, call, reads, saved,
                   results, sat, latest, peer, handle>>

\* self.get_latest_version()
GetLatestVersionCall ==
    /\ CanCallPackage
    /\ self # <<>>
    /\ latest' = GetLatestVersion(self)
    /\ clock' = clock + 1
    /\ UNCHANGED <<resvars, packages, loaded, disk, artifacts, call, reads, saved,
                   results, sat, self, peer, handle>>

PackageNext ==
    \/ NewPackage
    \/ AddVersionCall
    \/ GetLatestVersionCall

PackageSpec == Init /\ [][PackageNext]_vars

(* ================= two registries sharing one Storage ================= *)

\* The caller turns to the other of two PackageRegistry objects built on the
\* same Storage: its packages and _loaded become the ones the calls act on.
UseOtherHandle ==
    /\ pc = "idle"
    /\ call.op # "none"
    /\ handle' = 3 - handle
    /\ packages' = peer.packages
    /\ loaded' = peer.loaded
    /\ peer' = [packages |-> packages, loaded |-> loaded]
    /\ UNCHANGED <<resvars, disk, artifacts, clock, call, reads, saved,
                   results, sat, self, latest>>

\* Publish calls through either object, one after the other.
SharedNext ==
    \/ PublishPackage
    \/ UseOtherHandle

SharedSpec == RegInit /\ [][SharedNext]_vars

\* The interpreter runs the call to its end: a step that can be taken is
\* taken.  A step the depth bound of Choose refuses leaves the run stuck short
\* of its end, so the bound cannot make a call look terminating.
FairSpec == Spec /\ WF_vars(Next)

(* ======================= properties of the resolver =================== *)

\* The versions the index knows for a package it was asked about.
Known(p) == IF p \in DOMAIN index THEN {CoerceOf[t] : t \in index[p]} ELSE {}

SatisfiesAll(v, constraints) ==
    \A r \in DOMAIN constraints : Satisfies(v, constraints[r])

\* The known versions of p that satisfy every constraint of `constraints`.
ValidAmong(p, constraints) == {v \in Known(p) : SatisfiesAll(v, constraints)}

\* The dependency dict of the version chosen for p (empty while not fetched).
ChosenDeps(p) ==
    IF p \in DOMAIN to_install /\ <<p, to_install[p]>> \in DOMAIN depmap
    THEN depmap[<<p, to_install[p]>>] ELSE <<>>

\* The packages reachable from the packages of S along chosen dependencies.
RECURSIVE Closure(_, _)
Closure(S, n) ==
    IF n = 0 THEN S
    ELSE Closure(S \cup UNION {Names(ChosenDeps(q)) : q \in S}, n - 1)

\* r's chosen version requires x, directly or through chosen dependencies.
Requires(r, x) ==
    x \in Closure(Names(ChosenDeps(r)), Cardinality(Packages))

Pin(v) == <<"=", "=">> \o VersionStr(v)

(* C1: whenever resolve returns, every entry p -> v of to_install satisfies
   every constraint recorded for p in required_versions at the end of the
   run.  The code breaks this: a package is evaluated once, and a constraint
   recorded later is never checked against the version already chosen. *)
C1_ResultConsistent ==
    pc = "returned" =>
        \A p \in DOMAIN to_install :
            SatisfiesAll(Coerce(to_install[p]), ConstraintsOf(required_versions, p))

(* C2: two roots both transitively require a package x that is not installed,
   exactly two requirers constrain x, and some known version of x satisfies
   both: then the result holds x at the greatest known version satisfying
   both.  The code breaks this when the later requirer's constraint excludes
   the version chosen for the earlier one. *)
C2_SharedDependencyMax ==
    pc = "returned" =>
        \A x \in Packages \ Names(roots) :
            ( /\ Len(roots) = 2
              /\ (Names(roots) \cup {x}) \cap DOMAIN installed = {}
              /\ Requires(roots[1][1], x)
              /\ Requires(roots[2][1], x)
              /\ Cardinality(DOMAIN ConstraintsOf(required_versions, x)) = 2
              /\ ValidAmong(x, ConstraintsOf(required_versions, x)) # {} )
            => /\ x \in DOMAIN to_install
               /\ Coerce(to_install[x])
                    = MaxVersion(ValidAmong(x, ConstraintsOf(required_versions, x)))

\* Roots a and b are both chosen; a's chosen version requires x as ==1.0.0 and
\* b's as ==2.0.0; x is not installed and the index knows both versions.
ConflictingPins(a, b, x) ==
    /\ Names(roots) = {a, b} /\ a # b /\ x \notin {a, b}
    /\ \E k \in DOMAIN ChosenDeps(a) : ChosenDeps(a)[k] = <<x, Pin(<<1, 0, 0>>)>>
    /\ \E k \in DOMAIN ChosenDeps(b) : ChosenDeps(b)[k] = <<x, Pin(<<2, 0, 0>>)>>
    /\ x \notin DOMAIN installed
    /\ {<<1, 0, 0>>, <<2, 0, 0>>} \subseteq Known(x)

(* C3: when roots a and b require x as ==1.0.0 and as ==2.0.0, resolve never
   returns a result, and what it raises is a DependencyConflict for x whose
   map holds both a and b.  The code returns a result when x was already
   chosen for the first root before the second root's pin was recorded. *)
C3_ConflictingPinsRaise ==
    \A a, b, x \in Packages :
        ConflictingPins(a, b, x) =>
            /\ pc # "returned"
            /\ pc = "raised" =>
                 /\ conflict.package = x
                 /\ {a, b} \subseteq DOMAIN conflict.required_versions

\* The versions the index knows for p after this step.
KnownNext(p) == IF p \in DOMAIN index' THEN {CoerceOf[t] : t \in index'[p]} ELSE {}

\* This step records a version for p in to_install.
Records(p) ==
    /\ p \in DOMAIN to_install'
    /\ (p \notin DOMAIN to_install \/ to_install[p] # to_install'[p])

(* C4: at the moment resolve records to_install[p] = v, v satisfies every
   constraint recorded for p in required_versions at that moment. *)
C4_ChosenSatisfiesRecorded ==
    [][ \A p \in Packages :
          Records(p) =>
              SatisfiesAll(Coerce(to_install'[p]),
                           ConstraintsOf(required_versions, p)) ]_vars

\* A version was just chosen for a package that two requirers constrain
\* differently.
C4_Witness ==
    /\ pc = "running"
    /\ Top.phase = "chosen"
    /\ \E r1, r2 \in DOMAIN ConstraintsOf(required_versions, Top.pkg) :
         required_versions[Top.pkg][r1] # required_versions[Top.pkg][r2]

(* C5: the version chosen for a package is the greatest, by (major, minor,
   patch), of the known versions that satisfy all constraints recorded for the
   package at the moment of evaluation: it is one of them and none of them is
   greater. *)
C5_ChosenIsMaximum ==
    [][ \A p \in Packages :
          Records(p) =>
              /\ Coerce(to_install'[p]) \in KnownNext(p)
              /\ SatisfiesAll(Coerce(to_install'[p]),
                              ConstraintsOf(required_versions, p))
              /\ \A w \in KnownNext(p) :
                    SatisfiesAll(w, ConstraintsOf(required_versions, p))
                        => ~VLess(Coerce(to_install'[p]), w) ]_vars

\* A version was just chosen among several known versions that satisfy the
\* recorded constraints.
C5_Witness ==
    /\ pc = "running"
    /\ Top.phase = "chosen"
    /\ Cardinality(ValidAmong(Top.pkg, ConstraintsOf(required_versions, Top.pkg))) >= 2
    /\ Coerce(to_install[Top.pkg]) = <<2, 0, 0>>

\* This step asks the index for the versions of p for the first time, i.e. p
\* is a package that must be installed and is being evaluated.
Evaluates(p) == p \notin DOMAIN index /\ p \in DOMAIN index'

(* C6: when a package that must be installed is evaluated and no known version
   satisfies all constraints recorded for it (zero known versions included),
   resolve raises DependencyConflict with the package's name and the full
   requirer -> constraint map recorded for it at that moment; nothing is added
   to to_install and the call never returns a result afterwards. *)
C6_NoVersionRaisesConflict ==
    [][ /\ \A p \in Packages :
             ( /\ Evaluates(p)
               /\ \A v \in KnownNext(p) :
                      ~SatisfiesAll(v, ConstraintsOf(required_versions, p)) )
             => /\ pc' = "raised"
                /\ conflict' = [ package |-> p,
                                 required_versions |->
                                     ConstraintsOf(required_versions, p) ]
                /\ to_install' = to_install
        /\ pc = "raised" => pc' = "raised" ]_vars

\* A conflict was raised for a package with known versions that two requirers
\* constrain.
C6_Witness ==
    /\ pc = "raised"
    /\ Known(conflict.package) # {}
    /\ Cardinality(DOMAIN conflict.required_versions) = 2

(* C7: on successful return the result is closed under dependencies: for every
   entry p -> v of to_install the dependency map of (p, v) was fetched and
   every package it names is a key of to_install or a key of installed. *)
C7_ResultClosed ==
    pc = "returned" =>
        \A p \in DOMAIN to_install :
            /\ <<p, to_install[p]>> \in DOMAIN depmap
            /\ \A d \in Names(depmap[<<p, to_install[p]>>]) :
                 d \in DOMAIN to_install \/ d \in DOMAIN installed

\* A result in which one dependency is covered by to_install and another only
\* by installed.
C7_Witness ==
    /\ pc = "returned"
    /\ \E p \in DOMAIN to_install :
         \E d, e \in Names(ChosenDeps(p)) :
            /\ d \in DOMAIN to_install /\ d # p
            /\ e \notin DOMAIN to_install /\ e \in DOMAIN installed

Terminated == pc \in {"returned", "raised", "error"}

(* C8: every resolve call terminates, returning a result or raising, also when
   the dependency graph has cycles or self-dependencies.  Checked under
   FairSpec. *)
C8_Terminates == <>Terminated

\* A call that has ended although a package depends on itself and two packages
\* depend on each other.
C8_Witness ==
    /\ Terminated
    /\ \E p \in Packages : p \in Names(ChosenDeps(p))
    /\ \E p, q \in Packages :
         p # q /\ q \in Names(ChosenDeps(p)) /\ p \in Names(ChosenDeps(q))

(* C9: within one resolve call visited only grows and each package is
   evaluated at most once: _get_best_version and _get_dependencies run at most
   once per package, and an entry of to_install, once set, is never changed or
   removed. *)
C9_EvaluatedOnce ==
    [][ /\ visited \subseteq visited'
        /\ \A p \in DOMAIN to_install :
             p \in DOMAIN to_install' /\ to_install'[p] = to_install[p]
        /\ \A p \in Packages : nbest'[p] <= 1 /\ nfetch'[p] <= 1 ]_vars

\* A finished run in which a package chosen once was requested by two
\* requirers, so one of the two calls found it visited.
C9_Witness ==
    /\ pc = "returned"
    /\ \E p \in DOMAIN to_install :
         /\ Cardinality(DOMAIN required_versions[p]) = 2
         /\ nbest[p] = 1 /\ nfetch[p] = 1

(* C10 as stated: an installed package whose installed version satisfies a
   constraint under which it is requested is never in the result.  The code
   decides on the first request only, so a package first requested under a
   constraint its installed version fails is scheduled although another
   requirer's constraint is satisfied by the installed version. *)
C10_InstalledExcludedAnyRequest ==
    pc = "returned" =>
        \A p \in DOMAIN installed :
            \A r \in DOMAIN ConstraintsOf(required_versions, p) :
                Satisfies(Coerce(installed[p]), required_versions[p][r])
                    => p \notin DOMAIN to_install

(* C10, amended: an installed package whose installed version satisfies the
   constraint of the request that first reaches it (the call that marks it
   visited) is not in to_install, then and for the rest of the run, whatever
   other packages are resolved. *)
C10_InstalledExcluded ==
    \A p \in DOMAIN reached :
        (p \in DOMAIN installed /\ Satisfies(Coerce(installed[p]), reached[p]))
            => p \notin DOMAIN to_install

\* A finished run that skipped an installed package on its first request while
\* another requirer asked for a version the installed one does not satisfy.
C10_Witness ==
    /\ pc = "returned"
    /\ \E p \in DOMAIN reached :
         /\ p \in DOMAIN installed
         /\ Satisfies(Coerce(installed[p]), reached[p])
         /\ \E r \in DOMAIN required_versions[p] :
              ~Satisfies(Coerce(installed[p]), required_versions[p][r])
         /\ p \notin DOMAIN to_install

(* ============ properties of the resolver's remote queries ============= *)

(* C11: a failure of the versions query or of the dependencies query of a
   package is reported to the caller of resolve: after such a failure the call
   never ends with a result, and never ends with a DependencyConflict for a
   package whose versions query failed.  Checked under OpenSpec.  The code
   catches both failures and goes on with [] and {}. *)
C11_FailuresReported ==
    /\ failures # {} => pc # "returned"
    /\ pc = "raised" => <<"versions", conflict.package>> \notin failures

\* Some constraint recorded for p is malformed.
HasMalformed(p) ==
    \E r \in DOMAIN ConstraintsOf(required_versions, p) :
        RaisesOf[required_versions[p][r]]

(* C12: when a malformed constraint is recorded for a package that resolve
   evaluates, the call ends with the parse failure: it never returns a result
   and never raises DependencyConflict for that package.  Checked under
   OpenSpec.  The code never parses the constraint when the package has no
   known versions, or when the constraint is recorded after the package was
   visited. *)
C12_MalformedSurfaces ==
    \A p \in visited :
        HasMalformed(p) =>
            /\ pc # "returned"
            /\ ~(pc = "raised" /\ conflict.package = p)

(* C13: every version resolve chooses for a package is a version the registry
   knows for it, whatever PyPI offers under the same name.  Checked under
   OpenSpec.  The code asks PyPI first and takes its releases when PyPI
   answers 200; the registry is only the fallback. *)
C13_ChosenKnownToRegistry ==
    \A p \in DOMAIN to_install :
        /\ answers[p].registry.status = "ok"
        /\ to_install[p] \in answers[p].registry.versions

(* ===================== properties of the registry ===================== *)

\* The token is signed for a user who is an admin or owns the package name.
Authorized(token, name) ==
    /\ token \in DOMAIN UserFiles
    /\ (UserFiles[token].is_admin \/ name \in UserFiles[token].owned_packages)

\* The in-memory map a call works on: the map after its load().
Loaded == ParseInto(packages, GetIndex(disk))

Working == IF loaded THEN packages ELSE Loaded.packages

LoadRaises == ~loaded /\ Loaded.raised

\* This step is a call of the operation.
Calls(op) == call' # call /\ call'.op = op

\* This step changes neither the index file nor the stored artifacts, makes
\* no save_index call, and leaves the in-memory map as load() gives it.
NothingChanged ==
    /\ disk' = disk
    /\ artifacts' = artifacts
    /\ saved' = saved
    /\ packages' = Working

(* C14: publish of a (name, version) pair the registry already holds, by a
   caller allowed to publish it, fails with the version-exists error, uploads
   nothing, and leaves the in-memory index, the index file and the stored
   artifacts as they were; the published record keeps its locator and
   timestamp.  Checked under RegistrySpec. *)
C14_RepublishRejected ==
    [][ ( /\ Calls("publish_package")
          /\ ~LoadRaises
          /\ Authorized(call'.token, call'.name)
          /\ Has(Working, call'.name)
          /\ Has(Get(Working, call'.name).versions, call'.version) )
        => /\ call'.outcome = "VersionExists"
           /\ call'.upload = "none"
           /\ NothingChanged
           /\ Get(Get(packages', call'.name).versions, call'.version)
                = Get(Get(Working, call'.name).versions, call'.version) ]_vars

\* A publish was refused for a pair that an earlier publish of this run
\* stored, and the record is still the first publish's.
C14_Witness ==
    /\ call.op = "publish_package"
    /\ call.outcome = "VersionExists"
    /\ \E f \in Files :
         /\ FileUrl(call.name, call.version, f) \in artifacts
         /\ Get(Get(packages, call.name).versions, call.version).download_url
              = FileUrl(call.name, call.version, f)
         /\ Get(Get(packages, call.name).versions, call.version).upload_date
              < clock - 1

(* C15: a publish call whose token does not verify, or whose user is unknown
   or is neither an admin nor the owner of the package name, fails and changes
   nothing: no upload, no save, the index file and the artifacts stay, and the
   in-memory map is what the implied load() gives.  Checked under
   RegistrySpec. *)
C15_PublishNeedsPermission ==
    [][ ( Calls("publish_package") /\ ~Authorized(call'.token, call'.name) )
        => /\ call'.outcome \in {"InvalidToken", "Unauthorized", "ValidationError"}
           /\ call'.upload = "none"
           /\ NothingChanged ]_vars

\* A user who owns another package was refused on a registry that holds
\* packages.
C15_Witness ==
    /\ call.op = "publish_package"
    /\ call.outcome = "Unauthorized"
    /\ call.token = "alice"
    /\ call.name = "B"
    /\ packages # <<>>

(* C16: whenever add_package or publish_package returns without error, the
   index file holds exactly the in-memory package map.  Checked under
   RegistrySpec.  The code returns normally also when the write failed:
   Storage.save_index catches the failure and returns False, and save() drops
   that value. *)
C16_SavedOnReturn ==
    (call.op \in {"add_package", "publish_package"} /\ call.outcome = "ok")
        => (disk.state = "ok" /\ disk.doc = IndexDoc(packages))

(* C17: a publish call by a caller allowed to publish, with a version string
   Version.parse refuses or with an upload that fails, ends with that error
   and changes neither the in-memory index nor the index file: no version
   record and no package entry is added.  Checked under RegistrySpec. *)
C17_FailedPublishChangesNothing ==
    [][ /\ ( /\ Calls("publish_package")
             /\ ~LoadRaises
             /\ Authorized(call'.token, call'.name)
             /\ ~ParseAccepts(call'.version) )
           => /\ call'.outcome = "InvalidVersion"
              /\ call'.upload = "none"
              /\ NothingChanged
        /\ ( Calls("publish_package") /\ call'.upload = "failed" )
           => /\ call'.outcome = "StorageError"
              /\ NothingChanged ]_vars

\* An upload failed for a package name the registry does not hold yet, and
\* the name is still absent.
C17_Witness ==
    /\ call.op = "publish_package"
    /\ call.outcome = "StorageError"
    /\ ~Has(packages, call.name)
    /\ packages # <<>>

(* C18: once a load() has completed, every later load(), direct or implied by
   get_package, add_package or publish_package, reads nothing from storage
   and does not touch the in-memory map: a direct load or a get leaves the map
   as it is, and add and publish change only the entry of their package name.
   Checked under RegistrySpec. *)
C18_LoadOnce ==
    [][ loaded =>
          /\ loaded'
          /\ reads' = reads
          /\ (Calls("load") \/ Calls("get_package")) => packages' = packages
          /\ \A i \in DOMAIN packages :
               packages[i][1] # call'.name =>
                  /\ Has(packages', packages[i][1])
                  /\ Get(packages', packages[i][1]) = packages[i][2] ]_vars

\* A direct load() after the first one, while the in-memory map holds a
\* package that the index file does not.
C18_Witness ==
    /\ call.op = "load"
    /\ loaded
    /\ reads = 1
    /\ clock > 2
    /\ packages # <<>>
    /\ GetIndex(disk) # IndexDoc(packages)

\* The index file cannot be read, or holds an entry that does not decode.
Undecodable ==
    \/ disk.state = "unreadable"
    \/ disk.state = "ok" /\ \E i \in DOMAIN disk.doc : ~disk.doc[i][2].ok

(* C19: when the index file cannot be read or decoded, a first load(), direct
   or implied by get_package, does not raise and leaves the in-memory index
   empty.  Checked under RegistrySpec.  The code raises when an entry of a
   readable index fails Package.parse_obj, and keeps the entries parsed before
   it. *)
C19_LoadFailureNonFatal ==
    [][ ( /\ Calls("load") \/ Calls("get_package")
          /\ ~loaded
          /\ packages = <<>>
          /\ Undecodable )
        => /\ call'.outcome # "ValidationError"
           /\ packages' = <<>> ]_vars

(* C20: add_package(package) makes the entry of package.name equal to the
   given package, whatever record the name had before; every other entry of
   the map load() gives is kept as it is and no other entry appears; and the
   whole map is handed to save_index.  Checked under RegistrySpec. *)
C20_AddReplaces ==
    [][ ( Calls("add_package") /\ ~LoadRaises )
        => /\ call'.outcome = "ok"
           /\ Has(packages', call'.name)
           /\ Get(packages', call'.name) = call'.package
           /\ \A i \in DOMAIN packages' :
                packages'[i][1] # call'.name =>
                   /\ Has(Working, packages'[i][1])
                   /\ Get(Working, packages'[i][1]) = packages'[i][2]
           /\ \A i \in DOMAIN Working :
                Has(packages', Working[i][1])
           /\ saved' = IndexDoc(packages') ]_vars

\* add_package replaced package A, which an earlier publish of this run had
\* given version 1.0.0, by a record without that version, while package B
\* stayed.
C20_Witness ==
    /\ call.op = "add_package"
    /\ call.outcome = "ok"
    /\ call.name = "A"
    /\ \E f \in Files : FileUrl("A", VersionStr(<<1, 0, 0>>), f) \in artifacts
    /\ ~Has(Get(packages, "A").versions, VersionStr(<<1, 0, 0>>))
    /\ Has(packages, "B")

\* Every key of the package's version map is the version field of its value.
KeyedByVersion(package) ==
    \A j \in DOMAIN package.versions :
        package.versions[j][1] = package.versions[j][2].version

(* C21: after any sequence of load, get_package, add_package and
   publish_package calls, every Package of the in-memory index has a version
   map in which each key equals the version field of the PackageVersion it
   maps to.  Checked under RegistrySpec. *)
C21_KeysAreVersions ==
    \A i \in DOMAIN packages : KeyedByVersion(packages[i][2])

\* The index holds a package with one version loaded from the index file and
\* one that a publish call added through add_version.
C21_Witness ==
    /\ call.op = "publish_package"
    /\ call.outcome = "ok"
    /\ Has(packages, call.name)
    /\ Len(Get(packages, call.name).versions) = 2
    /\ Get(Get(packages, call.name).versions, call.version).upload_date > 0
    /\ \E j \in DOMAIN Get(packages, call.name).versions :
         Get(packages, call.name).versions[j][2].upload_date = 0

(* ======================== properties of search ======================== *)

\* The lower-cased query is a substring of the lower-cased name, of the
\* lower-cased description, or of a lower-cased keyword.
Matches(name, package, query) ==
    \/ Contains(Lower(name), Lower(query))
    \/ package.description # None
         /\ Contains(Lower(package.description), Lower(query))
    \/ \E k \in DOMAIN package.keywords :
         Contains(Lower(package.keywords[k]), Lower(query))

\* How often the package appears in the list.
Occurrences(found, package) ==
    Cardinality({j \in DOMAIN found : found[j] = package})

(* C22: search_packages(query) returns exactly the packages of the index
   whose name, description or some keyword contains the query, all compared
   in lower case: a matching package appears exactly once, also when several
   of its fields match, a package that does not match does not appear, and
   nothing else is returned; search("llama") over LlamaText and an unrelated
   package returns only LlamaText.  Checked under SearchSpec. *)
C22_SearchExact ==
    (call.op = "search_packages" /\ call.outcome = "ok") =>
        /\ \A i \in DOMAIN packages :
             Occurrences(results.found, packages[i][2])
               = IF Matches(packages[i][1], packages[i][2], results.query)
                 THEN 1 ELSE 0
        /\ \A j \in DOMAIN results.found :
             \E i \in DOMAIN packages : packages[i][2] = results.found[j]
        /\ ( /\ results.query = <<"l", "l", "a", "m", "a">>
             /\ Has(packages, LlamaText)
             /\ Has(packages, Unrelated)
             /\ Get(packages, Unrelated).description = None
             /\ Get(packages, Unrelated).keywords = <<>> )
           => results.found = <<Get(packages, LlamaText)>>

\* A search in upper case found a package whose name, description and
\* keywords all match, once, and left out the other package of the index.
C22_Witness ==
    /\ call.op = "search_packages"
    /\ call.outcome = "ok"
    /\ results.query = <<"L", "L", "A", "M", "A">>
    /\ Len(packages) = 2
    /\ Len(results.found) = 1
    /\ results.found[1].name = LlamaText
    /\ results.found[1].description = <<"A", " ", "l", "l", "a", "m", "a", " ", "t", "o", "o", "l">>
    /\ results.found[1].keywords = << <<"N", "L", "P">>, <<"L", "l", "a", "m", "a">> >>

(* ====================== properties of _satisfies ====================== *)

\* The last _satisfies call had this version and this constraint.
Asked(version, constraint) ==
    sat.op = "_satisfies" /\ sat.version = version /\ sat.constraint = constraint

\* The constraint made of an operator and str(reference).
Constraint(operator, reference) == operator \o VersionStr(reference)

(* C23: ~= with reference r is satisfied by version v exactly when v >= r,
   v.major = r.major and (v.major > 0 or v.minor = r.minor); and ~=0.2.3 is
   satisfied exactly by the versions 0.2.x with x >= 3, not by 0.3.0.
   Checked under SatSpec. *)
C23_CompatibleRelease ==
    \A v, r \in SatVersions :
        Asked(v, Constraint(<<"~", "=">>, r)) =>
            /\ sat.value = ( /\ VLeq(r, v)
                             /\ v[1] = r[1]
                             /\ (v[1] > 0 \/ v[2] = r[2]) )
            /\ r = <<0, 2, 3>> =>
                 sat.value = (v[1] = 0 /\ v[2] = 2 /\ v[3] >= 3)

\* ~=0.2.3 was asked of 0.3.0 and refused.
C23_Witness ==
    /\ Asked(<<0, 3, 0>>, Constraint(<<"~", "=">>, <<0, 2, 3>>))
    /\ sat.value = FALSE

(* C24: for a reference with major > 0, ~= is satisfied only by versions of
   the same minor: ~=1.2.3 is satisfied by 1.2.3 and by 1.2.9 and is not
   satisfied by 1.3.0.  Checked under SatSpec.  The code compares the minor
   only when the major is 0, so ~=1.2.3 is satisfied by 1.3.0. *)
C24_SameMinorAboveZero ==
    \A v, r \in SatVersions :
        (Asked(v, Constraint(<<"~", "=">>, r)) /\ r[1] > 0) =>
            /\ sat.value = TRUE => v[2] = r[2]
            /\ r = <<1, 2, 3>> =>
                 /\ v \in {<<1, 2, 3>>, <<1, 2, 9>>} => sat.value = TRUE
                 /\ v = <<1, 3, 0>> => sat.value = FALSE

(* C25: for every version v, "==" + str(v) is satisfied by v and
   ">" + str(v) is not; and >= and <= are evaluated as such, not as > and <
   applied to the rest of the string: >=r is satisfied exactly by the
   versions not below r, <=r exactly by those not above r.  Checked under
   SatSpec. *)
C25_EqualAndStrict ==
    \A v, r \in SatVersions :
        /\ Asked(v, Constraint(<<"=", "=">>, v)) => sat.value = TRUE
        /\ Asked(v, Constraint(<<">">>, v)) => sat.value = FALSE
        /\ Asked(v, Constraint(<<">", "=">>, r)) => sat.value = ~VLess(v, r)
        /\ Asked(v, Constraint(<<"<", "=">>, r)) => sat.value = ~VLess(r, v)

\* >= and <= were asked of a version with its own string and held.
C25_Witness ==
    /\ sat.op = "_satisfies"
    /\ sat.constraint \in { Constraint(<<">", "=">>, sat.version),
                            Constraint(<<"<", "=">>, sat.version) }
    /\ sat.value = TRUE

(* ================== properties of single-root calls ================== *)

\* The call returned for one root that is not installed and whose chosen
\* version has an empty dependency map.
SingleRootReturned ==
    /\ pc = "returned"
    /\ Len(roots) = 1
    /\ roots[1][1] \notin DOMAIN installed
    /\ ChosenDeps(roots[1][1]) = <<>>

(* C26 as stated: resolving a single root that is not installed and whose
   chosen version has no dependencies returns exactly {root: the maximum
   version of root available}.  The code returns the maximum of the versions
   that satisfy the root's constraint, which is lower when the constraint
   excludes the maximum available version. *)
C26_SingleRootMaxAvailable ==
    SingleRootReturned =>
        to_install = (roots[1][1] :> VersionStr(MaxVersion(Known(roots[1][1]))))

(* C26, amended: such a call returns a map with exactly one entry, the root
   with a version the index knows for it that satisfies the root's
   constraint, and no known version that satisfies the constraint is
   greater. *)
C26_SingleRootMaxSatisfying ==
    SingleRootReturned =>
        /\ DOMAIN to_install = {roots[1][1]}
        /\ Coerce(to_install[roots[1][1]]) \in Known(roots[1][1])
        /\ Satisfies(Coerce(to_install[roots[1][1]]), roots[1][2])
        /\ \A w \in Known(roots[1][1]) :
             Satisfies(w, roots[1][2]) => VLeq(w, Coerce(to_install[roots[1][1]]))

\* A single root pinned to 1.0.0 was resolved to 1.0.0 while the index also
\* knows 2.0.0.
C26_Witness ==
    /\ SingleRootReturned
    /\ roots[1][2] = Pin(<<1, 0, 0>>)
    /\ <<2, 0, 0>> \in Known(roots[1][1])
    /\ to_install = (roots[1][1] :> VersionStr(<<1, 0, 0>>))

(* =================== properties of the Package object ================= *)

\* The version a version string of the model was written from.
WrittenFrom(text) == CHOOSE v \in LatestVersions : VersionStr(v) = text

\* This step is a get_latest_version call.
QueriesLatest == clock' # clock /\ self' = self /\ self # <<>>

(* C27: what get_latest_version returns is computed from the versions the
   package holds at the call: None exactly when it holds none, otherwise the
   record of a stored version that no stored version exceeds in the numeric
   order of (major, minor, patch), so 1.10.0 and not 1.9.0 when both are
   stored, and versions added after an earlier call count.  Checked under
   PackageSpec. *)
C27_LatestIsNumericMaximum ==
    [][ QueriesLatest =>
          /\ (latest' = None) <=> (self.versions = <<>>)
          /\ latest' # None =>
               /\ \E j \in DOMAIN self.versions :
                    /\ self.versions[j][2] = latest'
                    /\ self.versions[j][1] = latest'.version
               /\ \A j \in DOMAIN self.versions :
                    LET v == WrittenFrom(latest'.version)
                        w == WrittenFrom(self.versions[j][1])
                    IN  \/ w[1] < v[1]
                        \/ w[1] = v[1] /\ w[2] < v[2]
                        \/ w[1] = v[1] /\ w[2] = v[2] /\ w[3] <= v[3] ]_vars

\* The latest version is 1.10.0, added after 1.9.0 with a get_latest_version
\* call between the two add_version calls.
C27_Witness ==
    /\ self # <<>>
    /\ Len(self.versions) = 2
    /\ Has(self.versions, VersionStr(<<1, 9, 0>>))
    /\ Has(self.versions, VersionStr(<<1, 10, 0>>))
    /\ Get(self.versions, VersionStr(<<1, 9, 0>>)).upload_date = 1
    /\ Get(self.versions, VersionStr(<<1, 10, 0>>)).upload_date = 3
    /\ latest # None
    /\ latest.version = VersionStr(<<1, 10, 0>>)

(* ================= properties of the order of recording =============== *)

\* The constraint recorded for p under the requirer, after this step.
RecordedNext(p, requirer, constraint) ==
    /\ p \in DOMAIN required_versions'
    /\ requirer \in DOMAIN required_versions'[p]
    /\ required_versions'[p][requirer] = constraint

(* C28: the constraints of all roots are recorded under "root" when the calls
   begin, before any package is evaluated, and stay recorded; so when a
   version is chosen for a root that is reached as a dependency of another
   package, inside the call of an earlier root, that version satisfies the
   root's own constraint and the constraint of every requirer recorded so
   far. *)
C28_RootsSeededFirst ==
    [][ /\ pc = "idle" /\ pc' = "running" =>
             \A p \in Packages : nbest'[p] = 0 /\ p \notin visited'
        /\ pc' # "idle" =>
             \A k \in DOMAIN roots' : RecordedNext(roots'[k][1], RootKey, roots'[k][2])
        /\ \A k \in DOMAIN roots :
             (Records(roots[k][1]) /\ Top.pkg # RootKey) =>
                 /\ Satisfies(Coerce(to_install'[roots[k][1]]), roots[k][2])
                 /\ SatisfiesAll(Coerce(to_install'[roots[k][1]]),
                                 ConstraintsOf(required_versions, roots[k][1])) ]_vars

\* The second root, pinned to 1.0.0 by the caller, was reached first as a
\* dependency of the first root, which accepts any version from 1.0.0 on, and
\* 1.0.0 was chosen for it although 2.0.0 is known.
C28_Witness ==
    /\ pc = "running"
    /\ Len(roots) = 2
    /\ Len(stack) = 3
    /\ Top.phase = "chosen"
    /\ Top.pkg = roots[2][1]
    /\ roots[2][2] = Pin(<<1, 0, 0>>)
    /\ stack[2].pkg = roots[1][1]
    /\ required_versions[Top.pkg][roots[1][1]] = <<">", "=">> \o VersionStr(<<1, 0, 0>>)
    /\ <<2, 0, 0>> \in Known(Top.pkg)
    /\ to_install[Top.pkg] = VersionStr(<<1, 0, 0>>)

\* The value of a key in a dict given as a sequence of <<key, value>>.
ItemOf(items, key) == items[CHOOSE k \in DOMAIN items : items[k][1] = key][2]

\* This step is the step of _resolve_package(p) that fetches the dependencies
\* of the version chosen for p and records them.
RecordsDepsOf(p) ==
    /\ pc = "running"
    /\ Top.phase = "chosen"
    /\ Top.pkg = p
    /\ Len(stack') = Len(stack)
    /\ stack'[Len(stack')].phase = "loop"

\* _resolve_package(p) is resolving its dependency x, and x's chosen version
\* and p's both depend on y, which this step evaluates.
EvaluatesShared(p, x, y) ==
    /\ pc = "running"
    /\ Len(stack) >= 3
    /\ Top.pkg = x
    /\ stack[Len(stack) - 1].pkg = p
    /\ p # RootKey
    /\ x \in Names(stack[Len(stack) - 1].deps)
    /\ y \in Names(stack[Len(stack) - 1].deps)
    /\ y \in Names(Top.deps)
    /\ nbest'[y] # nbest[y]

(* C29: the step that fetches the dependencies of the version chosen for p
   records p's constraint on every one of them and evaluates none of them;
   hence when p depends on x and y, x's chosen version depends on y, and y is
   evaluated while x is being resolved, either a version is chosen for y that
   satisfies both p's and x's constraint on y, or DependencyConflict is raised
   for y. *)
C29_DepsRecordedBeforeRecursion ==
    [][ /\ \A p \in Packages :
             RecordsDepsOf(p) =>
                 /\ \A k \in DOMAIN stack'[Len(stack')].deps :
                      RecordedNext(stack'[Len(stack')].deps[k][1], p,
                                   stack'[Len(stack')].deps[k][2])
                 /\ nbest' = nbest
                 /\ visited' = visited
                 /\ to_install' = to_install
        /\ \A p, x, y \in Packages :
             EvaluatesShared(p, x, y) =>
                 \/ /\ Records(y)
                    /\ Satisfies(Coerce(to_install'[y]),
                                 ItemOf(stack[Len(stack) - 1].deps, y))
                    /\ Satisfies(Coerce(to_install'[y]), ItemOf(Top.deps, y))
                 \/ /\ pc' = "raised"
                    /\ conflict'.package = y ]_vars

\* A depends on B and on X pinned to 1.0.0, B's chosen version depends on X
\* from 1.0.0 on, and while B was being resolved 1.0.0 was chosen for X
\* although 2.0.0 is known.
C29_Witness ==
    /\ pc = "running"
    /\ Len(stack) = 4
    /\ Top.phase = "chosen"
    /\ Top.pkg = "X"
    /\ stack[3].pkg = "B"
    /\ stack[2].pkg = "A"
    /\ stack[2].deps = << <<"B", <<">", "=">> \o VersionStr(<<1, 0, 0>>)>>,
                          <<"X", Pin(<<1, 0, 0>>)>> >>
    /\ stack[3].deps = << <<"X", <<">", "=">> \o VersionStr(<<1, 0, 0>>)>> >>
    /\ <<2, 0, 0>> \in Known("X")
    /\ to_install["X"] = VersionStr(<<1, 0, 0>>)

(* ================ properties of the shared index file ================= *)

\* The index file holds the version of the package.
Persisted(d, name, version) ==
    /\ d.state = "ok"
    /\ Has(d.doc, name)
    /\ Has(Get(d.doc, name).package.versions, version)

(* C30: with two PackageRegistry objects on one Storage and publish calls made
   one after the other, a publish call that succeeds and whose index write
   succeeds never removes a version from the index file, so every version
   published through either object is still in the file at the end.  Checked
   under SharedSpec.  The code writes the whole in-memory map of the
   publishing object, which was loaded once and does not hold what the other
   object published since. *)
C30_NoLostPublish ==
    [][ ( /\ Calls("publish_package")
          /\ call'.outcome = "ok"
          /\ disk' = Disk("ok", saved') )
        => \A name \in RegistryNames, version \in PublishTexts :
              Persisted(disk, name, version) => Persisted(disk', name, version) ]_vars

====
